---- MODULE Spec2Model ----
(***************************************************************************)
(* Incremental sync of the Andhra Pradesh CCP API into BigQuery.           *)
(*                                                                         *)
(* Two programs of the repository are modelled side by side:               *)
(*   "api_export"  src/api_export.py             (one read, one write)    *)
(*   "ccp"         src/src/andhra_pradesh_ccp.py (entity loop)            *)
(* Both write the same three tables of the same warehouse dataset.         *)
(*                                                                         *)
(* Calendar dates are day numbers counted from 2023-06-01 (day 0).         *)
(* A Python None is the empty sequence, a value v that may be None is <<v>>.*)
(* A text is a sequence of tokens; a phone number is one token and the     *)
(* separator "," is a token of its own.                                    *)
(***************************************************************************)
EXTENDS Integers, Sequences, FiniteSets, TLC

(* ------------------------------ bounds --------------------------------- *)
\* number of program runs explored
MaxRuns == 2
\* last value of the wall-clock date (day number)
MaxToday == 2
\* number of times the remote system edits its personnel records
MaxVer == 2
\* number of write calls made when the write functions are driven directly
MaxLoads == 2
\* number of entity-fetch calls made when the client is driven directly
MaxCalls == 2
\* frames of a Report method the interpreter stacks before RecursionError
\* (sys.getrecursionlimit(), 1000 by default, scaled down)
RecursionLimit == 3

(* ------------------------- program constants --------------------------- *)
\* default_start_date = dt.date(2023, 6, 1)
DefaultStartDate == 0
\* overlap = 30
Overlap == 30

Progs == {"api_export", "ccp"}
Dests == {"bigquery", "local"}
TableNames == {"nurses", "patient_training_sessions", "nurse_training_sessions"}
FactTables == {"patient_training_sessions", "nurse_training_sessions"}

None == << >>
Some(v) == <<v>>

(* ------------------------------ helpers -------------------------------- *)
RECURSIVE Flatten(_)
\* [x2 for x1 in nested for x2 in x1]
Flatten(nested) ==
  IF nested = << >> THEN << >> ELSE Head(nested) \o Flatten(Tail(nested))

RECURSIVE SetMax(_)
SetMax(S) ==
  LET x == CHOOSE y \in S : TRUE
  IN IF S = {x} THEN x
     ELSE LET m == SetMax(S \ {x}) IN IF x > m THEN x ELSE m

\* dt_iterate(start, end, timedelta(days = 1)) collected into a list
dt_iterate(start, end) ==
  IF start > end THEN << >> ELSE [i \in 1..(end - start + 1) |-> start + i - 1]

\* the textual form DD-MM-YYYY of a date, and its parse str.to_date('%d-%m-%Y')
Dmy(d) == <<"dmy", d>>
to_date(s) == s[2]

Join(piece) == IF piece = << >> THEN "" ELSE piece[1]

RECURSIVE Split(_)
\* str.split(','): the pieces between the separators; '' gives ['']
Split(s) ==
  IF \A i \in 1..Len(s) : s[i] # ","
  THEN <<Join(s)>>
  ELSE LET i == CHOOSE k \in 1..Len(s) :
                  s[k] = "," /\ \A j \in 1..(k - 1) : s[j] # ","
       IN <<Join(SubSeq(s, 1, i - 1))>> \o Split(SubSeq(s, i + 1, Len(s)))

RECURSIVE Unique(_)
\* the distinct elements of a sequence, first occurrence kept
Unique(s) ==
  IF s = << >> THEN << >>
  ELSE LET r == Unique(SubSeq(s, 1, Len(s) - 1))
           x == s[Len(s)]
       IN IF \E i \in 1..Len(r) : r[i] = x THEN r ELSE Append(r, x)

\* json.dumps(dictionary, sort_keys = True): the members in key order
SortedKeys ==
  <<"date_of_session", "session_conducted_by", "session_id",
    "sessiondateandtime", "traineesdata1", "trainerdata1">>

json_dumps_sorted(dictionary) ==
  LET ks == SelectSeq(SortedKeys, LAMBDA k : k \in DOMAIN dictionary)
  IN [i \in 1..Len(ks) |-> <<ks[i], dictionary[ks[i]]>>]

\* hashlib.md5 of the canonical text (no collisions at this scale)
dict_hash(dictionary) == <<"md5", json_dumps_sorted(dictionary)>>

(* ------------------------- the remote system --------------------------- *)
\* data of a successful get_total_ccp_class_attendancedata for one date
PatientData(d) ==
  IF d = DefaultStartDate
  THEN <<[session_id |-> 1, date_of_session |-> Dmy(d),
          session_conducted_by |-> <<"p1">>]>>
  ELSE IF d = DefaultStartDate + 1
  THEN <<[session_id |-> 2, date_of_session |-> Dmy(d),
          session_conducted_by |-> <<"p1", ",", "p2">>]>>
  ELSE IF d = DefaultStartDate + Overlap + 1
  THEN <<[session_id |-> 4, date_of_session |-> Dmy(d),
          session_conducted_by |-> <<"p1">>]>>
  ELSE << >>

\* data of a successful get_total_nurse_training_sessiondata for one date
NurseData(d) ==
  IF d = DefaultStartDate
  THEN <<[session_id |-> 3, sessiondateandtime |-> Dmy(d),
          trainerdata1 |-> <<[phone_no |-> "p3"]>>,
          traineesdata1 |-> <<[phone_no |-> "p2"]>>]>>
  ELSE << >>

\* phone numbers the remote system has a personnel record for
KnownPhones == {"p1", "p2"}

\* data of a successful get_nurses_detailes_data for one phone number
NurseDetails(phone, ver) ==
  IF phone \in KnownPhones
  THEN <<[username |-> phone, version |-> ver]>>
  ELSE << >>

(* ---------------------------- normalization ---------------------------- *)
\* utils.json_dumps_list: a nested list stored as its JSON text
json_dumps_list(x) == <<"json", x>>

\* x['md5'] = dict_hash(x), then the patient_training_sessions frame
patient_row(x) ==
  [session_id |-> x.session_id,
   date_of_session |-> to_date(x.date_of_session),
   session_conducted_by |-> x.session_conducted_by,
   md5 |-> dict_hash(x)]

\* x['md5'] = dict_hash(x), then the nurse_training_sessions frame
nurse_training_row(x) ==
  [session_id |-> x.session_id,
   sessiondateandtime |-> to_date(x.sessiondateandtime),
   trainerdata1 |-> json_dumps_list(x.trainerdata1),
   traineesdata1 |-> json_dumps_list(x.traineesdata1),
   md5 |-> dict_hash(x)]

\* pl.from_dicts(patient_trainings).with_columns(...)
patient_frame(patient_trainings) ==
  [i \in 1..Len(patient_trainings) |-> patient_row(patient_trainings[i])]

\* pl.from_dicts(nurse_trainings).with_columns(...)
nurse_training_frame(nurse_trainings) ==
  [i \in 1..Len(nurse_trainings) |-> nurse_training_row(nurse_trainings[i])]

(* ------------------------------ warehouse ------------------------------ *)
\* a data_frames dict: the entries in insertion order
Names(data_frames) == {data_frames[i].name : i \in 1..Len(data_frames)}

Frame(data_frames, name) ==
  LET i == CHOOSE k \in 1..Len(data_frames) : data_frames[k].name = name
  IN data_frames[i].rows

RECURSIVE RowCount(_)
RowCount(data_frames) ==
  IF data_frames = << >> THEN 0
  ELSE Len(Head(data_frames).rows) + RowCount(Tail(data_frames))

\* str(uuid.uuid4()): the n-th value drawn during the write call `call`
uuid4(call, n) == <<"uuid", call, n>>

\* variant: one uuid4 is drawn for the frame and given to all its rows
add_extracted_columns_one_uuid(df, extracted_at, call, u0) ==
  [i \in 1..Len(df) |->
     df[i] @@ [extracted_at |-> extracted_at,
               extracted_uuid |-> uuid4(call, u0 + 1)]]

\* extraction columns: the shared timestamp, one fresh uuid4 per row; u0
\* values were drawn before in the same write call
add_extracted_columns(df, extracted_at, call, u0) ==
  [i \in 1..Len(df) |->
     df[i] @@ [extracted_at |-> extracted_at,
               extracted_uuid |-> uuid4(call, u0 + i)]]

\* add_extracted_columns applied to every frame of the dict
AddAll(data_frames, extracted_at, call) ==
  [k \in 1..Len(data_frames) |->
     [name |-> data_frames[k].name,
      rows |-> add_extracted_columns(
                 data_frames[k].rows, extracted_at, call,
                 RowCount(SubSeq(data_frames, 1, k - 1)))]]

\* select * from __TABLES__ where table_id = table_name; shape[0] > 0
read_bigquery_exists(wh, table_name) == wh.exists[table_name]

\* variant: every load job replaces the table
write_bigquery_replacing(wh, df, table_name, write_disposition) ==
  [rows |-> [wh.rows EXCEPT ![table_name] = df],
   exists |-> [wh.exists EXCEPT ![table_name] = TRUE]]

\* the load job of one frame under its write disposition
write_bigquery(wh, df, table_name, write_disposition) ==
  [rows |-> [wh.rows EXCEPT ![table_name] =
                IF write_disposition = "WRITE_TRUNCATE" THEN df ELSE @ \o df],
   exists |-> [wh.exists EXCEPT ![table_name] = TRUE]]

\* variant: every table is appended to, the nurses table too
write_dispositions_append_all ==
  [nurses |-> "WRITE_APPEND",
   patient_training_sessions |-> "WRITE_APPEND",
   nurse_training_sessions |-> "WRITE_APPEND"]

write_dispositions ==
  [nurses |-> "WRITE_TRUNCATE",
   patient_training_sessions |-> "WRITE_APPEND",
   nurse_training_sessions |-> "WRITE_APPEND"]

\* variant: group_by("username").head(1), the first row of every username
group_by_head(rows) ==
  LET keep == {i \in 1..Len(rows) :
                 \A j \in 1..(i - 1) : rows[j].username # rows[i].username}
      nth(k) == CHOOSE i \in keep : Cardinality({j \in keep : j <= i}) = k
  IN [k \in 1..Cardinality(keep) |-> rows[nth(k)]]

\* group_by("username").tail(1): the last row of every username
group_by_tail(rows) ==
  LET keep == {i \in 1..Len(rows) :
                 \A j \in (i + 1)..Len(rows) : rows[j].username # rows[i].username}
      nth(k) == CHOOSE i \in keep : Cardinality({j \in keep : j <= i}) = k
  IN [k \in 1..Cardinality(keep) |-> rows[nth(k)]]

SortedTables == <<"nurse_training_sessions", "nurses", "patient_training_sessions">>

RECURSIVE WriteAll(_, _, _, _)
\* the first n load jobs of the loop over `order`
WriteAll(wh, data_frames, order, n) ==
  IF n = 0 THEN wh
  ELSE LET before == WriteAll(wh, data_frames, order, n - 1)
           name == order[n]
       IN write_bigquery(before, Frame(data_frames, name), name,
                         write_dispositions[name])

\* for table_name in sorted(data_frames.keys())
api_load_order(data_frames) ==
  SelectSeq(SortedTables, LAMBDA t : t \in Names(data_frames))

\* for key in data_frames
ccp_load_order(data_frames) ==
  [k \in 1..Len(data_frames) |-> data_frames[k].name]

\* api_export.write_data_to_bigquery; the first n load jobs succeed
api_write_data_to_bigquery(wh, data_frames, extracted_at, call, n) ==
  LET stamped == AddAll(data_frames, extracted_at, call)
      merged ==
        IF read_bigquery_exists(wh, "nurses")
        THEN [k \in 1..Len(stamped) |->
                IF stamped[k].name = "nurses"
                THEN [name |-> "nurses",
                      rows |-> group_by_tail(wh.rows["nurses"] \o stamped[k].rows)]
                ELSE stamped[k]]
        ELSE stamped
  IN WriteAll(wh, merged, api_load_order(merged), n)

\* andhra_pradesh_ccp.write_data_to_bigquery; the first n load jobs succeed
ccp_write_data_to_bigquery(wh, data_frames, extracted_at, call, n) ==
  LET stamped == AddAll(data_frames, extracted_at, call)
  IN WriteAll(wh, stamped, ccp_load_order(stamped), n)

\* read_bigquery of "select max(date_of_session) as max_date from <table>":
\* the query of a missing table fails, a table without rows gives None
read_bigquery_max_date(wh) ==
  LET rows == wh.rows["patient_training_sessions"]
  IN IF ~wh.exists["patient_training_sessions"]
     THEN [error |-> "NotFound", item |-> None]
     ELSE [error |-> "",
           item |-> IF rows = << >> THEN None
                    ELSE Some(SetMax({rows[i].date_of_session :
                                        i \in 1..Len(rows)}))]

(* --------------------------- watermark / dates ------------------------- *)
\* variant: the start is a whole overlap before the maximum date
get_dates_from_bigquery_off_by_one(wh, today) ==
  LET dates == [start |-> DefaultStartDate, end |-> today - 1, error |-> ""]
  IN IF read_bigquery_exists(wh, "patient_training_sessions")
     THEN LET df == read_bigquery_max_date(wh)
          IN IF df.error # "" THEN [dates EXCEPT !.error = df.error]
             ELSE IF df.item # None
             THEN [dates EXCEPT !.start = df.item[1] - Overlap]
             ELSE dates
     ELSE dates

\* variant: the start is an overlap before today, whatever the table holds
get_dates_from_bigquery_from_today(wh, today) ==
  LET dates == [start |-> DefaultStartDate, end |-> today - 1, error |-> ""]
  IN IF read_bigquery_exists(wh, "patient_training_sessions")
     THEN LET df == read_bigquery_max_date(wh)
          IN IF df.error # "" THEN [dates EXCEPT !.error = df.error]
             ELSE IF df.item # None
             THEN [dates EXCEPT !.start = today - (Overlap - 1)]
             ELSE dates
     ELSE dates

\* the dates it returns, and the error of its query ("" when none)
get_dates_from_bigquery(wh, today) ==
  LET dates == [start |-> DefaultStartDate, end |-> today - 1, error |-> ""]
  IN IF read_bigquery_exists(wh, "patient_training_sessions")
     THEN LET df == read_bigquery_max_date(wh)
          IN IF df.error # "" THEN [dates EXCEPT !.error = df.error]
             ELSE IF df.item # None
             THEN [dates EXCEPT !.start = df.item[1] - (Overlap - 1)]
             ELSE dates
     ELSE dates

\* the dates get_dates has computed when it reaches its two checks
resolve_dates(dest, start_date, end_date, wh, today) ==
  IF dest = "bigquery" THEN get_dates_from_bigquery(wh, today)
  ELSE [start |-> IF start_date # None THEN start_date[1] ELSE today - 7,
        end |-> IF end_date # None THEN end_date[1] ELSE today - 1,
        error |-> ""]

\* variant: an end date after today is let through
get_dates_error_no_end_check(dates, today) ==
  IF dates.start > dates.end THEN "Start date cannot be later than end date."
  ELSE ""

\* variant: a start date after the end date is let through
get_dates_error_no_start_check(dates, today) ==
  IF dates.end > today THEN "End date cannot be later than today."
  ELSE ""

\* the message of the exception get_dates raises, "" when it returns
get_dates_error(dates, today) ==
  IF dates.start > dates.end THEN "Start date cannot be later than end date."
  ELSE IF dates.end > today THEN "End date cannot be later than today."
  ELSE ""

(* ------------------------------- state --------------------------------- *)
VARIABLES
  today,     \* datetime.now().date() of the host
  srvVer,    \* contents version of the personnel records of the remote system
  runs,      \* number of program runs started
  wh,        \* the warehouse dataset: rows and existence of each table
  run        \* the running program: its position and its local variables

vars == <<today, srvVer, runs, wh, run>>

\* the write calls in the order they are made: one per entity and run
WriteCall(r, entity) == IF entity = "sessions" THEN r + r ELSE r + r + 1

\* datetime.now(utc).replace(microsecond = 0) during a write call: a later
\* call reads a later time
utc_now(call) == <<"utc", call>>

\* no entity-fetch call of the Report is in progress
NoFetch ==
  [pc |-> "none", method |-> "", arg |-> None, depth |-> 0,
   sent |-> << >>, responses |-> << >>, logins |-> 0,
   result |-> << >>, error |-> "", attempts |-> 0, status |-> 0]

\* no concurrent batch of the read functions is in progress
NoBatch ==
  [pc |-> "none", pool |-> "", method |-> "", units |-> << >>, w |-> << >>,
   floor |-> 0, expiries |-> 0, reordered |-> FALSE,
   result |-> << >>, error |-> ""]

\* the dates fetched by the bigquery runs so far, and whether all of them
\* completed without error
NoHistory == [covered |-> {}, clean |-> TRUE]

\* no dt_iterate generator has been created
NoGenerator == [pc |-> "none", start |-> 0, end |-> 0, yielded |-> << >>]

EmptyWarehouse ==
  [rows |-> [t \in TableNames |-> << >>], exists |-> [t \in TableNames |-> FALSE]]

\* the locals of main and of the functions it calls, before main starts;
\* wh0 records the warehouse as the run (or the load) found it
InitRun ==
  [pc |-> "idle", prog |-> "api_export", dest |-> "bigquery", env |-> "dev",
   overridden |-> FALSE,
   dates |-> [start |-> DefaultStartDate, end |-> DefaultStartDate, error |-> ""],
   entity |-> "sessions", key |-> None, logins |-> 0, api_called |-> FALSE,
   patient_trainings |-> << >>, nurse_trainings |-> << >>,
   nurse_phones |-> << >>, nurses |-> << >>, data |-> << >>,
   error |-> "", raised |-> "", written |-> << >>, notified |-> FALSE,
   wh0 |-> EmptyWarehouse, fetch |-> NoFetch, batch |-> NoBatch,
   gen |-> NoGenerator, history |-> NoHistory]

\* a dataset without tables, or one whose session table was created empty
Init ==
  /\ today \in (DefaultStartDate + 1)..MaxToday
  /\ srvVer = 1
  /\ runs = 0
  /\ \E created \in BOOLEAN :
       wh = [EmptyWarehouse EXCEPT !.exists["patient_training_sessions"] = created]
  /\ run = InitRun

\* values of --start-date / --end-date on a host whose date is t
ArgDates(t) == {None, Some(t), Some(t + 1)}

\* the environment of params.yaml selected by GITHUB_REF_NAME
Environments == {"prod", "dev"}

\* an exception leaves the try block of main
Raise(r, message) == [r EXCEPT !.pc = "except", !.error = message]

\* return data['data'] if data['result'] == 'success' else []
fetch_result(result, data) == IF result = "success" THEN data ELSE << >>

SeqRange(s) == {s[i] : i \in 1..Len(s)}

(* --------------------------- steps of a run ---------------------------- *)
\* the program is started
StartRun ==
  /\ run.pc \in {"idle", "done", "failed"}
  /\ runs < MaxRuns
  /\ runs' = runs + 1
  /\ \E t \in today..MaxToday : today' = t
  /\ \E v \in {srvVer, srvVer + 1} : v <= MaxVer /\ srvVer' = v
  /\ \E prog \in Progs, dest \in Dests :
       run' = [InitRun EXCEPT !.pc = "get_dates", !.prog = prog, !.dest = dest,
                              !.wh0 = wh]
  /\ UNCHANGED wh

\* args = parse_args(); dates = get_dates(args, params)
get_dates ==
  /\ run.pc = "get_dates"
  /\ \E start_date \in ArgDates(today), end_date \in ArgDates(today) :
       LET dates == resolve_dates(run.dest, start_date, end_date, wh, today)
           message == get_dates_error(dates, today)
           r == [run EXCEPT !.dates = dates,
                            !.overridden = (start_date # None \/ end_date # None)]
       IN run' = IF dates.error # "" THEN Raise(r, dates.error)
                 ELSE IF message # "" THEN Raise(r, message)
                 ELSE [r EXCEPT !.pc = "login"]
  /\ UNCHANGED <<today, srvVer, runs, wh>>

\* report = Report(...); report.login()
login ==
  /\ run.pc = "login"
  /\ \E result \in {"success", "failed"} :
       run' = IF result = "success"
              THEN [run EXCEPT !.key = Some(run.logins + 1), !.logins = @ + 1,
                      !.api_called = TRUE,
                      !.pc = IF run.prog = "ccp" /\ run.entity = "nurses"
                             THEN "fetch_details" ELSE "fetch_patient"]
              ELSE Raise([run EXCEPT !.logins = @ + 1, !.api_called = TRUE],
                         "Login unsuccessful")
  /\ UNCHANGED <<today, srvVer, runs, wh>>

\* the batch map(report.get_patient_training, dates) and its flattening
fetch_patient_trainings ==
  /\ run.pc = "fetch_patient"
  /\ LET units == dt_iterate(run.dates.start, run.dates.end)
         held == {d \in SeqRange(units) : PatientData(d) # << >>}
     IN \E failed \in SUBSET held, raises \in BOOLEAN :
          run' = IF raises THEN Raise(run, "HTTPError")
                 ELSE [run EXCEPT
                         !.patient_trainings =
                            Flatten([i \in 1..Len(units) |->
                              fetch_result(
                                IF units[i] \in failed THEN "failed" ELSE "success",
                                PatientData(units[i]))]),
                         !.pc = "fetch_nurse"]
  /\ UNCHANGED <<today, srvVer, runs, wh>>

\* the batch map(report.get_nurse_training, dates) and its flattening
fetch_nurse_trainings ==
  /\ run.pc = "fetch_nurse"
  /\ LET units == dt_iterate(run.dates.start, run.dates.end)
         held == {d \in SeqRange(units) : NurseData(d) # << >>}
     IN \E failed \in SUBSET held, raises \in BOOLEAN :
          run' = IF raises THEN Raise(run, "HTTPError")
                 ELSE [run EXCEPT
                         !.nurse_trainings =
                            Flatten([i \in 1..Len(units) |->
                              fetch_result(
                                IF units[i] \in failed THEN "failed" ELSE "success",
                                NurseData(units[i]))]),
                         !.pc = IF run.prog = "ccp" THEN "frames" ELSE "phones"]
  /\ UNCHANGED <<today, srvVer, runs, wh>>

\* phone numbers of the nested trainer and trainee lists of one record
nurse_training_phones(x) ==
  [i \in 1..Len(x.trainerdata1) |-> x.trainerdata1[i].phone_no]
    \o [i \in 1..Len(x.traineesdata1) |-> x.traineesdata1[i].phone_no]

\* all_phones = list(set(phones_in_patient_trainings + phones_in_nurse_trainings))
all_phones(patient_trainings, nurse_trainings) ==
  Unique(Flatten([i \in 1..Len(patient_trainings) |->
                    Split(patient_trainings[i].session_conducted_by)])
         \o Flatten([i \in 1..Len(nurse_trainings) |->
                       nurse_training_phones(nurse_trainings[i])]))

\* api_export.read_data_from_api between the session batches and the
\* personnel batch: return on no patient training, else collect the phones
api_collect_phones ==
  /\ run.pc = "phones"
  /\ run' = IF run.patient_trainings = << >>
            THEN [run EXCEPT !.pc = "done"]
            ELSE [run EXCEPT
                    !.nurse_phones = all_phones(run.patient_trainings,
                                                run.nurse_trainings),
                    !.pc = "fetch_details"]
  /\ UNCHANGED <<today, srvVer, runs, wh>>

\* the batch map(report.get_nurse_details, phones) and its flattening
fetch_nurse_details ==
  /\ run.pc = "fetch_details"
  /\ LET units == run.nurse_phones
         held == {p \in SeqRange(units) : NurseDetails(p, srvVer) # << >>}
     IN \E failed \in SUBSET held, raises \in BOOLEAN :
          run' = IF raises THEN Raise(run, "HTTPError")
                 ELSE [run EXCEPT
                         !.nurses =
                            Flatten([i \in 1..Len(units) |->
                              fetch_result(
                                IF units[i] \in held \ failed
                                THEN "success" ELSE "failed",
                                NurseDetails(units[i], srvVer))]),
                         !.pc = "frames"]
  /\ UNCHANGED <<today, srvVer, runs, wh>>

\* api_export.read_data_from_api, the frames: pl.from_dicts of an empty list
\* raises NoDataError
api_frames ==
  /\ run.pc = "frames"
  /\ run.prog = "api_export"
  /\ run' = IF run.nurses = << >> \/ run.nurse_trainings = << >>
            THEN Raise(run, "NoDataError")
            ELSE [run EXCEPT
                    !.data =
                       <<[name |-> "nurses", rows |-> run.nurses],
                         [name |-> "patient_training_sessions",
                          rows |-> patient_frame(run.patient_trainings)],
                         [name |-> "nurse_training_sessions",
                          rows |-> nurse_training_frame(run.nurse_trainings)]>>,
                    !.pc = "write"]
  /\ UNCHANGED <<today, srvVer, runs, wh>>

\* api_export.main after the read: write to the destination; a load job may fail
api_write ==
  /\ run.pc = "write"
  /\ run.prog = "api_export"
  /\ IF run.dest = "bigquery"
     THEN /\ \E n \in 0..Len(run.data) :
               /\ wh' = LET call == WriteCall(runs, "sessions")
                         IN api_write_data_to_bigquery(
                              wh, run.data, utc_now(call), call, n)
               /\ LET r == [run EXCEPT
                              !.written = SubSeq(api_load_order(run.data), 1, n)]
                  IN run' = IF n < Len(run.data)
                            THEN Raise(r, "load job failed")
                            ELSE [r EXCEPT !.pc = "done"]
     ELSE /\ run' = [run EXCEPT !.pc = "done"]
          /\ UNCHANGED wh
  /\ UNCHANGED <<today, srvVer, runs>>

\* andhra_pradesh_ccp.read_sessions_data_from_api, the frames: one per
\* session kind whose list is not empty
ccp_session_frames ==
  /\ run.pc = "frames"
  /\ run.prog = "ccp"
  /\ run.entity = "sessions"
  /\ run' = [run EXCEPT
               !.data =
                  (IF run.patient_trainings # << >>
                   THEN <<[name |-> "patient_training_sessions",
                           rows |-> patient_frame(run.patient_trainings)]>>
                   ELSE << >>)
                  \o (IF run.nurse_trainings # << >>
                      THEN <<[name |-> "nurse_training_sessions",
                              rows |-> nurse_training_frame(run.nurse_trainings)]>>
                      ELSE << >>),
               !.pc = "check"]
  /\ UNCHANGED <<today, srvVer, runs, wh>>

\* andhra_pradesh_ccp.read_nurses_data_from_api, the frames
ccp_nurse_frames ==
  /\ run.pc = "frames"
  /\ run.prog = "ccp"
  /\ run.entity = "nurses"
  /\ run' = [run EXCEPT
               !.data = IF run.nurses = << >> THEN << >>
                        ELSE <<[name |-> "nurses", rows |-> run.nurses]>>,
               !.pc = "check"]
  /\ UNCHANGED <<today, srvVer, runs, wh>>

\* andhra_pradesh_ccp.main: if len(data) > 0: return None
ccp_returns(data) == Len(data) > 0

\* andhra_pradesh_ccp.main after a read: the return test, the write to the
\* destination, and the next entity of the loop
ccp_write ==
  /\ run.pc = "check"
  /\ IF ccp_returns(run.data)
     THEN /\ run' = [run EXCEPT !.pc = "done"]
          /\ UNCHANGED wh
     ELSE LET next == IF run.entity = "sessions"
                      THEN [run EXCEPT !.pc = "read_phones", !.entity = "nurses",
                                       !.key = None]
                      ELSE [run EXCEPT !.pc = "done"]
          IN IF run.dest = "bigquery"
             THEN /\ \E n \in 0..Len(run.data) :
                       /\ wh' = LET call == WriteCall(runs, run.entity)
                                 IN ccp_write_data_to_bigquery(
                                      wh, run.data, utc_now(call), call, n)
                       /\ LET written == run.written
                                \o SubSeq(ccp_load_order(run.data), 1, n)
                          IN run' = IF n < Len(run.data)
                                    THEN Raise([run EXCEPT !.written = written],
                                               "load job failed")
                                    ELSE [next EXCEPT !.written = written]
             ELSE /\ run' = next
                  /\ UNCHANGED wh
  /\ UNCHANGED <<today, srvVer, runs>>

SortedPhones == <<"", "p1", "p2", "p3">>

\* select distinct session_conducted_by ... where session_conducted_by != '',
\* then str.split(',').explode().unique().sort()
read_nurse_phones_from_bigquery(w) ==
  LET rows == w.rows["patient_training_sessions"]
      phones_raw == Unique(SelectSeq(
                      [i \in 1..Len(rows) |-> rows[i].session_conducted_by],
                      LAMBDA c : c # << >>))
      exploded == Flatten([i \in 1..Len(phones_raw) |-> Split(phones_raw[i])])
  IN SelectSeq(SortedPhones, LAMBDA p : p \in SeqRange(exploded))

\* andhra_pradesh_ccp.main, entity nurses: the query fails on a missing table
ccp_read_nurse_phones ==
  /\ run.pc = "read_phones"
  /\ run' = IF ~read_bigquery_exists(wh, "patient_training_sessions")
            THEN Raise(run, "NotFound")
            ELSE [run EXCEPT !.nurse_phones = read_nurse_phones_from_bigquery(wh),
                             !.pc = "login"]
  /\ UNCHANGED <<today, srvVer, runs, wh>>

\* what client.chat_postMessage can do: return, raise SlackApiError (the
\* Slack API answered with an error), or raise another exception (the
\* request could not be sent)
SlackOutcomes == {"ok", "SlackApiError", "URLError"}

\* send_message_to_slack: the exception that leaves it, "" when it returns;
\* only SlackApiError is caught
send_message_to_slack(outcome) ==
  IF outcome \in {"ok", "SlackApiError"} THEN "" ELSE outcome

\* except Exception as e: notify when the environment is prod, then raise e;
\* an exception that leaves the handler replaces e
handle_exception ==
  /\ run.pc = "except"
  /\ \E environment \in Environments :
       \E outcome \in IF environment = "prod" THEN SlackOutcomes ELSE {"ok"} :
         LET failure == IF environment = "prod"
                        THEN send_message_to_slack(outcome) ELSE ""
         IN run' = [run EXCEPT !.env = environment,
                               !.notified = (environment = "prod"),
                               !.raised = IF failure # "" THEN failure
                                          ELSE run.error,
                               !.pc = "failed"]
  /\ UNCHANGED <<today, srvVer, runs, wh>>

Next ==
  \/ StartRun
  \/ get_dates
  \/ login
  \/ fetch_patient_trainings
  \/ fetch_nurse_trainings
  \/ api_collect_phones
  \/ fetch_nurse_details
  \/ api_frames
  \/ api_write
  \/ ccp_session_frames
  \/ ccp_nurse_frames
  \/ ccp_write
  \/ ccp_read_nurse_phones
  \/ handle_exception

Spec == Init /\ [][Next]_vars

(* ===================== the client driven directly ====================== *)
Methods == {"get_patient_training", "get_nurse_training", "get_nurse_details"}

\* arguments the read functions pass to a method
Args(method) ==
  IF method = "get_nurse_details" THEN {"p1", "p3"}
  ELSE {DefaultStartDate, DefaultStartDate + 1}

\* the JSON body of the request of a method
request_json(method, arg) ==
  IF method = "get_patient_training"
  THEN [flag |-> "get_total_ccp_class_attendancedata", value |-> Dmy(arg)]
  ELSE IF method = "get_nurse_training"
  THEN [flag |-> "get_total_nurse_training_sessiondata", value |-> Dmy(arg)]
  ELSE [flag |-> "get_nurses_detailes_data", value |-> arg]

\* the data the remote system holds for a request
ServerData(method, arg, ver) ==
  IF method = "get_patient_training" THEN PatientData(arg)
  ELSE IF method = "get_nurse_training" THEN NurseData(arg)
  ELSE NurseDetails(arg, ver)

\* the answers the remote system can give to an entity request
Responses(method, arg, ver) ==
  {[status |-> 200, result |-> "success", error |-> "",
    data |-> ServerData(method, arg, ver)],
   [status |-> 200, result |-> "failed", error |-> "Invalid or token expired",
    data |-> << >>],
   [status |-> 200, result |-> "failed", error |-> "Expired token",
    data |-> << >>],
   [status |-> 200, result |-> "failed", error |-> "No data found",
    data |-> << >>],
   [status |-> 500, result |-> "", error |-> "", data |-> << >>]}

\* response.raise_for_status() raises on a 4xx or 5xx status
raises_for_status(response) == response.status >= 400

\* variant: every failure is taken for an expired token
has_token_expired_any_failure(data) == data.result = "failed"

\* variant: only the first of the two expiry texts is recognized
has_token_expired_first_only(data) ==
  data.result = "failed" /\ data.error \in {"Invalid or token expired"}

\* Report.has_token_expired
has_token_expired(data) ==
  data.result = "failed"
    /\ data.error \in {"Invalid or token expired", "Expired token"}

\* Report.headers
headers(r) == [AuthKey |-> r.key, Username |-> "username"]

\* the Report is constructed and logs in, as the read functions do first
report_login ==
  /\ run.pc = "idle"
  /\ \E result \in {"success", "failed"} :
       run' = IF result = "success"
              THEN [run EXCEPT !.key = Some(1), !.logins = 1, !.pc = "client"]
              ELSE [run EXCEPT !.logins = 1, !.pc = "failed",
                               !.error = "Login unsuccessful"]
  /\ UNCHANGED <<today, srvVer, runs, wh>>

\* a method of the Report is called from outside
call_fetch ==
  /\ run.pc = "client"
  /\ run.fetch.pc \in {"none", "returned", "raised"}
  /\ runs < MaxCalls
  /\ runs' = runs + 1
  /\ \E method \in Methods :
       \E arg \in Args(method) :
         run' = [run EXCEPT !.fetch = [NoFetch EXCEPT !.pc = "request",
                                         !.method = method, !.arg = Some(arg),
                                         !.depth = 1]]
  /\ UNCHANGED <<today, srvVer, wh>>

\* the body of a get_* method up to its if: the request is sent with the
\* current headers, and answered
fetch_request ==
  /\ run.fetch.pc = "request"
  /\ LET f == run.fetch
         request == [json |-> request_json(f.method, f.arg[1]),
                     headers |-> headers(run)]
     IN \E response \in Responses(f.method, f.arg[1], srvVer) :
          LET g == [f EXCEPT !.sent = Append(@, request),
                             !.responses = Append(@, response)]
          IN run' = [run EXCEPT !.fetch =
                       IF raises_for_status(response)
                       THEN [g EXCEPT !.pc = "raised", !.error = "HTTPError"]
                       ELSE IF has_token_expired(response)
                       THEN [g EXCEPT !.pc = "login"]
                       ELSE [g EXCEPT !.pc = "returned",
                               !.result = fetch_result(response.result,
                                                       response.data)]]
  /\ UNCHANGED <<today, srvVer, runs, wh>>

\* variant: the retry is a loop that reuses the frame and keeps no history
fetch_relogin_looping ==
  /\ run.fetch.pc = "login"
  /\ \E result \in {"success", "failed"} :
       run' = IF result = "failed"
              THEN [run EXCEPT !.logins = 1,
                               !.fetch.pc = "raised",
                               !.fetch.error = "Login unsuccessful"]
              ELSE [run EXCEPT !.key = Some(1), !.logins = 1,
                               !.fetch.sent = << >>, !.fetch.responses = << >>,
                               !.fetch.pc = "request"]
  /\ UNCHANGED <<today, srvVer, runs, wh>>

\* variant: the key is assigned before the result of the login is tested
fetch_relogin_assigning_first ==
  /\ run.fetch.pc = "login"
  /\ \E result \in {"success", "failed"} :
       LET r == [run EXCEPT !.logins = @ + 1, !.fetch.logins = @ + 1,
                            !.key = IF result = "failed" THEN None
                                    ELSE Some(run.logins + 1)]
       IN run' = IF result = "failed"
                 THEN [r EXCEPT !.fetch.pc = "raised",
                                !.fetch.error = "Login unsuccessful"]
                 ELSE IF run.fetch.depth >= RecursionLimit
                 THEN [r EXCEPT !.fetch.pc = "raised",
                                !.fetch.error = "RecursionError"]
                 ELSE [r EXCEPT !.fetch.pc = "request", !.fetch.depth = @ + 1]
  /\ UNCHANGED <<today, srvVer, runs, wh>>

\* the expiry branch of a get_* method: self.login(), then the method calls
\* itself with the same argument; the interpreter raises RecursionError
\* when the stack of frames is full
fetch_relogin ==
  /\ run.fetch.pc = "login"
  /\ \E result \in {"success", "failed"} :
       LET r == [run EXCEPT !.logins = @ + 1, !.fetch.logins = @ + 1]
       IN run' = IF result = "failed"
                 THEN [r EXCEPT !.fetch.pc = "raised",
                                !.fetch.error = "Login unsuccessful"]
                 ELSE LET k == [r EXCEPT !.key = Some(r.logins)]
                      IN IF run.fetch.depth >= RecursionLimit
                         THEN [k EXCEPT !.fetch.pc = "raised",
                                        !.fetch.error = "RecursionError"]
                         ELSE [k EXCEPT !.fetch.pc = "request",
                                        !.fetch.depth = @ + 1]
  /\ UNCHANGED <<today, srvVer, runs, wh>>

NextFetch ==
  \/ report_login
  \/ call_fetch
  \/ fetch_request
  \/ fetch_relogin

SpecFetch == Init /\ [][NextFetch]_vars

\* a called method keeps running, and the remote system keeps answering
FairSpecFetch == SpecFetch /\ WF_vars(fetch_request) /\ WF_vars(fetch_relogin)

(* ================= one concurrent batch, worker by worker ============== *)
\* the remote system forgets every token after MaxExpiries expiries
MaxExpiries == 1

\* the pools of the two programs: concurrent.futures.ThreadPoolExecutor
\* shares the Report between the workers, multiprocessing.Pool hands every
\* task a pickled copy of it
Pools == {"threads", "processes"}

\* lists of work units the read functions map a method over
BatchUnits(method) ==
  IF method = "get_nurse_details"
  THEN {<<"p1">>, <<"p1", "p2">>, <<"p1", "p2", "p3">>}
  ELSE {dt_iterate(DefaultStartDate, DefaultStartDate + n) : n \in 0..2}

\* a task as the pool receives it: the bound method of the Report and a unit
NewWorker(pool, key) ==
  [pc |-> "request", depth |-> 1,
   key |-> IF pool = "processes" THEN key ELSE None,
   token |-> None, last |-> "", result |-> << >>, error |-> ""]

\* self.key as a worker reads or writes it: the Report of the coordinator
\* under threads, the worker's copy under processes
WorkerKey(r, i) ==
  IF r.batch.pool = "threads" THEN r.key ELSE r.batch.w[i].key

\* the answers of the remote system to an entity request carrying a token:
\* a token issued before the last expiry is answered with an expiry error
BatchResponses(method, unit, ver, key, floor) ==
  IF key = None \/ key[1] <= floor
  THEN {rsp \in Responses(method, unit, ver) :
          rsp.status = 200 /\ rsp.error \in {"Invalid or token expired",
                                            "Expired token"}}
  ELSE {rsp \in Responses(method, unit, ver) :
          rsp.error \notin {"Invalid or token expired", "Expired token"}}

\* variant: the coordinator goes on without waiting for the tasks
WorkerDone_no_wait(w) == TRUE

\* a task has ended: the method has returned or raised
WorkerDone(w) == w.pc \in {"returned", "raised"}

\* with Pool() as p: p.map(report.get_x, units) /
\* with ThreadPoolExecutor() as executor: executor.map(report.get_x, units)
map_start ==
  /\ run.pc = "client"
  /\ run.batch.pc = "none"
  /\ \E pool \in Pools, method \in Methods :
       \E units \in BatchUnits(method) :
         run' = [run EXCEPT !.batch =
                   [NoBatch EXCEPT !.pc = "running", !.pool = pool,
                      !.method = method, !.units = units,
                      !.w = [i \in 1..Len(units) |-> NewWorker(pool, run.key)]]]
  /\ UNCHANGED <<today, srvVer, runs, wh>>

\* the remote system expires the tokens it has issued
expire_tokens ==
  /\ run.batch.pc = "running"
  /\ run.batch.expiries < MaxExpiries
  /\ run.batch.floor < run.logins
  /\ run' = [run EXCEPT !.batch.expiries = @ + 1, !.batch.floor = run.logins]
  /\ UNCHANGED <<today, srvVer, runs, wh>>

\* a worker runs the body of a get_* method up to its if
worker_request(i) ==
  /\ run.batch.pc = "running"
  /\ run.batch.w[i].pc = "request"
  /\ LET b == run.batch
         w == b.w[i]
         key == headers([key |-> WorkerKey(run, i)]).AuthKey
     IN \E response \in BatchResponses(b.method, b.units[i], srvVer, key, b.floor) :
          LET g == [w EXCEPT !.last = IF response.status # 200 THEN "status"
                                      ELSE IF response.result = "success"
                                      THEN "success" ELSE response.error]
              done == raises_for_status(response) \/ ~has_token_expired(response)
          IN run' = [run EXCEPT
                       !.batch.w[i] =
                          IF raises_for_status(response)
                          THEN [g EXCEPT !.pc = "raised", !.error = "HTTPError"]
                          ELSE IF has_token_expired(response)
                          THEN [g EXCEPT !.pc = "login"]
                          ELSE [g EXCEPT !.pc = "returned",
                                  !.result = fetch_result(response.result,
                                                          response.data)],
                       !.batch.reordered =
                          @ \/ (done /\ \E j \in 1..(i - 1) : ~WorkerDone(b.w[j]))]
  /\ UNCHANGED <<today, srvVer, runs, wh>>

\* variant: login without the assert, the Auth-Key of a failed login being null
worker_login_unchecked(i) ==
  /\ run.batch.pc = "running"
  /\ run.batch.w[i].pc = "login"
  /\ \E result \in {"success", "failed"} :
       LET r == [run EXCEPT !.logins = @ + 1]
       IN run' = [r EXCEPT !.batch.w[i].pc = "assign",
                           !.batch.w[i].token =
                              IF result = "failed" THEN None ELSE Some(r.logins)]
  /\ UNCHANGED <<today, srvVer, runs, wh>>

\* a worker runs self.login() up to the assert: the remote system issues a
\* token or reports a failure
worker_login(i) ==
  /\ run.batch.pc = "running"
  /\ run.batch.w[i].pc = "login"
  /\ \E result \in {"success", "failed"} :
       LET r == [run EXCEPT !.logins = @ + 1]
       IN run' = IF result = "failed"
                 THEN [r EXCEPT !.batch.w[i].pc = "raised",
                                !.batch.w[i].error = "Login unsuccessful"]
                 ELSE [r EXCEPT !.batch.w[i].pc = "assign",
                                !.batch.w[i].token = Some(r.logins)]
  /\ UNCHANGED <<today, srvVer, runs, wh>>

\* a worker runs self.key = data['Auth-Key'], no lock held, and calls the
\* method again
worker_assign(i) ==
  /\ run.batch.pc = "running"
  /\ run.batch.w[i].pc = "assign"
  /\ LET w == run.batch.w[i]
         k == IF run.batch.pool = "threads"
              THEN [run EXCEPT !.key = w.token]
              ELSE [run EXCEPT !.batch.w[i].key = w.token]
     IN run' = IF w.depth >= RecursionLimit
               THEN [k EXCEPT !.batch.w[i].pc = "raised",
                              !.batch.w[i].token = None,
                              !.batch.w[i].error = "RecursionError"]
               ELSE [k EXCEPT !.batch.w[i].pc = "request",
                              !.batch.w[i].token = None,
                              !.batch.w[i].depth = @ + 1]
  /\ UNCHANGED <<today, srvVer, runs, wh>>

\* variant: only the result of the first unit is kept
flatten_results_first_unit(nested) ==
  IF nested = << >> THEN << >> ELSE nested[1]

\* [x2 for x1 in nested for x2 in x1]
flatten_results(nested) == Flatten(nested)

\* variant: a task that raised counts as a task without records
task_raised_never(w) == FALSE

\* iterating the results of the map raises when a task has raised
task_raised(w) == \E i \in 1..Len(w) : w[i].pc = "raised"

\* the exceptions the map can hand to the coordinator: iterating the results
\* of executor.map raises the error of the first unit that raised; Pool.map
\* raises the error of the task that failed first
batch_errors(pool, w) ==
  IF pool = "threads"
  THEN {w[i].error : i \in {i \in 1..Len(w) :
                              /\ w[i].pc = "raised"
                              /\ \A j \in 1..(i - 1) : w[j].pc # "raised"}}
  ELSE {w[i].error : i \in {i \in 1..Len(w) : w[i].pc = "raised"}}

\* the pool is joined: every task has ended; the map raises, or the
\* coordinator flattens the results in the order of the units
map_join ==
  /\ run.batch.pc = "running"
  /\ \A i \in 1..Len(run.batch.w) : WorkerDone(run.batch.w[i])
  /\ LET w == run.batch.w
     IN IF task_raised(w)
        THEN \E error \in batch_errors(run.batch.pool, w) :
               run' = [run EXCEPT !.batch.pc = "raised", !.batch.error = error]
        ELSE run' = [run EXCEPT
                       !.batch.pc = "returned",
                       !.batch.result =
                          flatten_results([i \in 1..Len(w) |-> w[i].result])]
  /\ UNCHANGED <<today, srvVer, runs, wh>>

NextBatch ==
  \/ report_login
  \/ map_start
  \/ expire_tokens
  \/ \E i \in 1..3 : i <= Len(run.batch.w) /\ worker_request(i)
  \/ \E i \in 1..3 : i <= Len(run.batch.w) /\ worker_login(i)
  \/ \E i \in 1..3 : i <= Len(run.batch.w) /\ worker_assign(i)
  \/ map_join

\* a batch reads neither the date of the host nor the warehouse
InitBatch ==
  /\ today = DefaultStartDate + 1
  /\ srvVer = 1
  /\ runs = 0
  /\ wh = EmptyWarehouse
  /\ run = InitRun

SpecBatch == InitBatch /\ [][NextBatch]_vars

(* ================== one network call of the client ===================== *)
\* requests_retry_session(total = 10, ...)
RetryTotal == 10

\* status_forcelist = (500, 502, 503, 504)
StatusForcelist == {500, 502, 503, 504}

\* statuses the remote system can answer a request with
Statuses == {200, 404} \cup StatusForcelist

\* the retry budget of the session a program sends its requests with:
\* andhra_pradesh_ccp mounts Retry(total = 10) on a Session, api_export calls
\* requests.get, whose adapter retries nothing
retry_total(prog) == IF prog = "ccp" THEN RetryTotal ELSE 0

\* the statuses that session retries
status_forcelist(prog) == IF prog = "ccp" THEN StatusForcelist ELSE {}

\* login or a get_* method sends its request
net_call ==
  /\ run.fetch.pc \in {"none", "returned", "raised"}
  /\ runs < MaxCalls
  /\ runs' = runs + 1
  /\ \E prog \in Progs, method \in Methods \cup {"login"} :
       \E arg \in IF method = "login" THEN {None}
                  ELSE {Some(a) : a \in Args(method)} :
         run' = [run EXCEPT !.prog = prog,
                            !.fetch = [NoFetch EXCEPT !.pc = "send",
                                         !.method = method, !.arg = arg]]
  /\ UNCHANGED <<today, srvVer, wh>>

\* the remote system answers an attempt: the adapter sends the request again
\* on a status of its forcelist while its budget lasts and raises when the
\* budget is used up; then response.raise_for_status() and response.json()
net_attempt ==
  /\ run.fetch.pc = "send"
  /\ \E status \in Statuses, malformed \in BOOLEAN :
       /\ malformed => status = 200
       /\ LET f == [run.fetch EXCEPT !.attempts = @ + 1, !.status = status]
          IN run' = [run EXCEPT !.fetch =
                       IF status \in status_forcelist(run.prog)
                       THEN IF f.attempts > retry_total(run.prog)
                            THEN [f EXCEPT !.pc = "raised", !.error = "RetryError"]
                            ELSE f
                       ELSE IF status >= 400
                       THEN [f EXCEPT !.pc = "raised", !.error = "HTTPError"]
                       ELSE IF malformed
                       THEN [f EXCEPT !.pc = "raised",
                                      !.error = "JSONDecodeError"]
                       ELSE [f EXCEPT !.pc = "returned"]]
  /\ UNCHANGED <<today, srvVer, runs, wh>>

NextTransport ==
  \/ net_call
  \/ net_attempt

SpecTransport == InitBatch /\ [][NextTransport]_vars

(* ================ the fingerprint of raw records, directly ============== *)
\* a dict as Python holds it: its items in insertion order
ItemKeys(items) == {items[i][1] : i \in 1..Len(items)}

ItemValue(items, k) ==
  items[CHOOSE i \in 1..Len(items) : items[i][1] = k][2]

\* the same dict without its insertion order
AsRecord(items) == [k \in ItemKeys(items) |-> ItemValue(items, k)]

\* variant: json.dumps(dictionary), the members in insertion order
json_dumps_insertion_order(items) == items

\* json.dumps(dictionary, sort_keys = True) of a dict with its insertion order
json_dumps(items) ==
  LET ks == SelectSeq(SortedKeys, LAMBDA k : k \in ItemKeys(items))
  IN [i \in 1..Len(ks) |-> <<ks[i], ItemValue(items, ks[i])>>]

\* dict_hash of a dict with its insertion order
dict_hash_items(items) == <<"md5", json_dumps(items)>>

\* the orders in which the remote system can send the members of a record
KeyOrders ==
  {<<1, 2, 3>>, <<1, 3, 2>>, <<2, 1, 3>>, <<2, 3, 1>>, <<3, 1, 2>>, <<3, 2, 1>>}

\* raw patient-training records: the contents of the remote records, with
\* one field changed or none, in every order of their members
RawRecords ==
  {[i \in 1..3 |->
      << <<"session_id", id>>, <<"date_of_session", Dmy(d)>>,
         <<"session_conducted_by", by>> >>[order[i]]] :
     id \in {1, 2}, d \in {DefaultStartDate, DefaultStartDate + 1},
     by \in {<<"p1">>, <<"p1", ",", "p2">>}, order \in KeyOrders}

\* two records arrive from the remote system, in the same fetch or not
InitHash ==
  /\ today = DefaultStartDate + 1
  /\ srvVer = 1
  /\ runs = 0
  /\ wh = EmptyWarehouse
  /\ \E x, y \in RawRecords :
       run = [InitRun EXCEPT !.pc = "raw", !.patient_trainings = <<x, y>>]

\* for x in patient_trainings: x['md5'] = dict_hash(x); then the frame
hash_records ==
  /\ run.pc = "raw"
  /\ LET raw == run.patient_trainings
     IN run' = [run EXCEPT
                  !.pc = "hashed",
                  !.data = <<[name |-> "patient_training_sessions",
                              rows |-> patient_frame(
                                         [i \in 1..Len(raw) |->
                                            AsRecord(raw[i])])]>>]
  /\ UNCHANGED <<today, srvVer, runs, wh>>

NextHash == hash_records

SpecHash == InitHash /\ [][NextHash]_vars

(* ============ the dates of a range and their session batches ========== *)
\* the last day a range can reach, in days after 2023-06-01
MaxDay == 6

\* variant: while start < end
dt_iterate_continues_exclusive(start, end) == start < end

\* while start <= end
dt_iterate_continues(start, end) == start <= end

\* read_sessions_data_from_api is entered with a range get_dates has
\* validated and, after report.login(), creates the generator
InitIterate ==
  /\ today = MaxDay + 1
  /\ srvVer = 1
  /\ runs = 1
  /\ wh = EmptyWarehouse
  /\ \E start \in DefaultStartDate..MaxDay, end \in DefaultStartDate..MaxDay :
       /\ start <= end
       /\ run = [InitRun EXCEPT
                   !.pc = "iterate", !.prog = "ccp", !.key = Some(1), !.logins = 1,
                   !.dates = [start |-> start, end |-> end, error |-> ""],
                   !.gen = [pc |-> "running", start |-> start, end |-> end,
                            yielded |-> << >>]]

\* yield start; start += step
dt_iterate_yield ==
  /\ run.pc = "iterate"
  /\ run.gen.pc = "running"
  /\ dt_iterate_continues(run.gen.start, run.gen.end)
  /\ run' = [run EXCEPT !.gen.yielded = Append(@, run.gen.start),
                        !.gen.start = @ + 1]
  /\ UNCHANGED <<today, srvVer, runs, wh>>

\* the loop ends and [*dt_iterate(...)] is the list of the dates yielded
dt_iterate_return ==
  /\ run.pc = "iterate"
  /\ run.gen.pc = "running"
  /\ ~dt_iterate_continues(run.gen.start, run.gen.end)
  /\ run' = [run EXCEPT !.gen.pc = "exhausted", !.pc = "fetch_patient"]
  /\ UNCHANGED <<today, srvVer, runs, wh>>

\* the tasks executor.map(method, iter_dates) submits: one for every element
submit(r, method) ==
  [NoBatch EXCEPT !.pc = "running", !.pool = "threads", !.method = method,
     !.units = r.gen.yielded,
     !.w = [i \in 1..Len(r.gen.yielded) |-> NewWorker("threads", r.key)]]

\* executor.map(report.get_patient_training, iter_dates)
submit_patient_trainings ==
  /\ run.pc = "fetch_patient"
  /\ run.gen.pc = "exhausted"
  /\ run' = [run EXCEPT !.batch = submit(run, "get_patient_training"),
                        !.pc = "fetch_nurse"]
  /\ UNCHANGED <<today, srvVer, runs, wh>>

\* executor.map(report.get_nurse_training, iter_dates)
submit_nurse_trainings ==
  /\ run.pc = "fetch_nurse"
  /\ run.gen.pc = "exhausted"
  /\ run.batch.method = "get_patient_training"
  /\ run' = [run EXCEPT !.batch = submit(run, "get_nurse_training"),
                        !.pc = "frames"]
  /\ UNCHANGED <<today, srvVer, runs, wh>>

NextIterate ==
  \/ dt_iterate_yield
  \/ dt_iterate_return
  \/ submit_patient_trainings
  \/ submit_nurse_trainings

SpecIterate == InitIterate /\ [][NextIterate]_vars

(* ============ bigquery runs over more days than the overlap =========== *)
MaxCycles == 2

\* the dates of the host at which the program is started
Todays ==
  {DefaultStartDate + 1, DefaultStartDate + Overlap + 2,
   DefaultStartDate + Overlap + 3}

InitCycle ==
  /\ today = DefaultStartDate + 1
  /\ srvVer = 1
  /\ runs = 0
  /\ \E created \in BOOLEAN :
       wh = [EmptyWarehouse EXCEPT !.exists["patient_training_sessions"] = created]
  /\ run = InitRun

\* the lists a session batch over units can return: a request that fails
\* without an expiry message yields no record
patient_trainings_of(units) ==
  {Flatten([i \in 1..Len(units) |->
              fetch_result(IF units[i] \in failed THEN "failed" ELSE "success",
                           PatientData(units[i]))]) :
     failed \in SUBSET {d \in SeqRange(units) : PatientData(d) # << >>}}

nurse_trainings_of(units) ==
  {Flatten([i \in 1..Len(units) |->
              fetch_result(IF units[i] \in failed THEN "failed" ELSE "success",
                           NurseData(units[i]))]) :
     failed \in SUBSET {d \in SeqRange(units) : NurseData(d) # << >>}}

\* the personnel batch, every request answered
nurses_of(phones, ver) ==
  Flatten([i \in 1..Len(phones) |-> NurseDetails(phones[i], ver)])

\* the three frames of api_export.read_data_from_api
api_data_frames(patient, nurse, nurses) ==
  <<[name |-> "nurses", rows |-> nurses],
    [name |-> "patient_training_sessions", rows |-> patient_frame(patient)],
    [name |-> "nurse_training_sessions", rows |-> nurse_training_frame(nurse)]>>

\* the frames of andhra_pradesh_ccp.read_sessions_data_from_api
ccp_data_frames(patient, nurse) ==
  (IF patient # << >>
   THEN <<[name |-> "patient_training_sessions", rows |-> patient_frame(patient)]>>
   ELSE << >>)
  \o (IF nurse # << >>
      THEN <<[name |-> "nurse_training_sessions",
              rows |-> nurse_training_frame(nurse)]>>
      ELSE << >>)

\* the locals of a run that has ended, and what the runs have fetched so far
Cycled(prog, dates, patient, nurse, nurses, data_frames, written, error, fetched) ==
  [InitRun EXCEPT
     !.pc = "cycled", !.prog = prog, !.dates = dates,
     !.patient_trainings = patient, !.nurse_trainings = nurse,
     !.nurses = nurses, !.data = data_frames, !.written = written,
     !.error = error, !.wh0 = wh, !.api_called = fetched,
     !.history =
        [covered |-> run.history.covered \cup
                       (IF fetched THEN SeqRange(dt_iterate(dates.start, dates.end))
                        ELSE {}),
         clean |-> run.history.clean /\ error = ""]]

\* a run of api_export.py --dest bigquery from get_dates to the last load job
cycle_api_export ==
  /\ runs < MaxCycles
  /\ runs' = runs + 1
  /\ \E t \in Todays : t >= today /\ today' = t
  /\ UNCHANGED srvVer
  /\ \E dates \in {get_dates_from_bigquery(wh, today')} :
     \E message \in {IF dates.error # "" THEN dates.error
                     ELSE get_dates_error(dates, today')} :
       IF message # ""
       THEN /\ run' = Cycled("api_export", dates, << >>, << >>, << >>, << >>,
                             << >>, message, FALSE)
            /\ UNCHANGED wh
       ELSE \E units \in {dt_iterate(dates.start, dates.end)} :
            \E patient \in patient_trainings_of(units),
               nurse \in nurse_trainings_of(units) :
              IF patient = << >>
              THEN /\ run' = Cycled("api_export", dates, patient, nurse, << >>,
                                    << >>, << >>, "", TRUE)
                   /\ UNCHANGED wh
              ELSE \E nurses \in {nurses_of(all_phones(patient, nurse), srvVer)} :
                     IF nurses = << >> \/ nurse = << >>
                     THEN /\ run' = Cycled("api_export", dates, patient, nurse,
                                           nurses, << >>, << >>, "NoDataError",
                                           TRUE)
                          /\ UNCHANGED wh
                     ELSE \E data_frames \in
                               {api_data_frames(patient, nurse, nurses)},
                             n \in 0..3 :
                            /\ wh' = api_write_data_to_bigquery(
                                       wh, data_frames,
                                       utc_now(WriteCall(runs', "sessions")),
                                       WriteCall(runs', "sessions"), n)
                            /\ run' = Cycled(
                                        "api_export", dates, patient, nurse,
                                        nurses, data_frames,
                                        SubSeq(api_load_order(data_frames), 1, n),
                                        IF n < 3 THEN "load job failed" ELSE "",
                                        TRUE)

\* andhra_pradesh_ccp: get_dates, read_sessions_data_from_api and
\* write_data_to_bigquery on the dict it returns
cycle_ccp_sessions ==
  /\ runs < MaxCycles
  /\ runs' = runs + 1
  /\ \E t \in Todays : t >= today /\ today' = t
  /\ UNCHANGED srvVer
  /\ \E dates \in {get_dates_from_bigquery(wh, today')} :
     \E message \in {IF dates.error # "" THEN dates.error
                     ELSE get_dates_error(dates, today')} :
       IF message # ""
       THEN /\ run' = Cycled("ccp", dates, << >>, << >>, << >>, << >>, << >>,
                             message, FALSE)
            /\ UNCHANGED wh
       ELSE \E units \in {dt_iterate(dates.start, dates.end)} :
            \E patient \in patient_trainings_of(units),
               nurse \in nurse_trainings_of(units) :
            \E data_frames \in {ccp_data_frames(patient, nurse)} :
            \E n \in 0..Len(data_frames) :
              /\ wh' = ccp_write_data_to_bigquery(
                         wh, data_frames, utc_now(WriteCall(runs', "sessions")),
                         WriteCall(runs', "sessions"), n)
              /\ run' = Cycled("ccp", dates, patient, nurse, << >>, data_frames,
                               SubSeq(ccp_load_order(data_frames), 1, n),
                               IF n < Len(data_frames)
                               THEN "load job failed" ELSE "",
                               TRUE)

NextCycle ==
  \/ cycle_api_export
  \/ cycle_ccp_sessions

SpecCycle == InitCycle /\ [][NextCycle]_vars

(* ================== the write functions driven directly ================ *)
\* lists read_*_data_from_api can return: the records of some of the dates
PatientLists ==
  {Flatten([i \in 1..2 |-> IF DefaultStartDate + i - 1 \in D
                           THEN PatientData(DefaultStartDate + i - 1)
                           ELSE << >>]) :
     D \in SUBSET {DefaultStartDate, DefaultStartDate + 1}} \ {<< >>}

NurseTrainingLists == {NurseData(DefaultStartDate)}

\* the personnel records of some of the known phones, all of one version
NurseLists(ver) ==
  {Flatten([i \in 1..Len(SortedPhones) |->
              IF SortedPhones[i] \in S THEN NurseDetails(SortedPhones[i], ver)
              ELSE << >>]) :
     S \in SUBSET KnownPhones} \ {<< >>}

\* the locals after a direct write call that completed n load jobs
Loaded(prog, entity, data_frames, order, n, patient, nurse, nurses) ==
  [InitRun EXCEPT
     !.pc = "loaded", !.prog = prog, !.entity = entity, !.data = data_frames,
     !.patient_trainings = patient, !.nurse_trainings = nurse,
     !.nurses = nurses, !.written = SubSeq(order, 1, n),
     !.error = IF n < Len(order) THEN "load job failed" ELSE "",
     !.wh0 = wh]

\* api_export.write_data_to_bigquery on the dict read_data_from_api returns
load_api_export ==
  /\ runs < MaxLoads
  /\ runs' = runs + 1
  /\ \E ver \in {srvVer, srvVer + 1} :
       /\ ver <= MaxVer
       /\ srvVer' = ver
       /\ \E nurses \in NurseLists(ver), patient \in PatientLists,
             nurse \in NurseTrainingLists, n \in 0..3 :
            LET data_frames ==
                  <<[name |-> "nurses", rows |-> nurses],
                    [name |-> "patient_training_sessions",
                     rows |-> patient_frame(patient)],
                    [name |-> "nurse_training_sessions",
                     rows |-> nurse_training_frame(nurse)]>>
                call == WriteCall(runs', "sessions")
            IN /\ wh' = api_write_data_to_bigquery(
                          wh, data_frames, utc_now(call), call, n)
               /\ run' = Loaded("api_export", "sessions", data_frames,
                                api_load_order(data_frames), n,
                                patient, nurse, nurses)
  /\ UNCHANGED today

\* andhra_pradesh_ccp.write_data_to_bigquery on the dict
\* read_sessions_data_from_api returns
load_ccp_sessions ==
  /\ runs < MaxLoads
  /\ runs' = runs + 1
  /\ \E patient \in PatientLists \cup {<< >>},
        nurse \in NurseTrainingLists \cup {<< >>} :
       LET data_frames ==
             (IF patient # << >>
              THEN <<[name |-> "patient_training_sessions",
                      rows |-> patient_frame(patient)]>>
              ELSE << >>)
             \o (IF nurse # << >>
                 THEN <<[name |-> "nurse_training_sessions",
                         rows |-> nurse_training_frame(nurse)]>>
                 ELSE << >>)
           call == WriteCall(runs', "sessions")
       IN \E n \in 0..Len(data_frames) :
            /\ wh' = ccp_write_data_to_bigquery(
                       wh, data_frames, utc_now(call), call, n)
            /\ run' = Loaded("ccp", "sessions", data_frames,
                             ccp_load_order(data_frames), n,
                             patient, nurse, << >>)
  /\ UNCHANGED <<today, srvVer>>

\* andhra_pradesh_ccp.write_data_to_bigquery on the dict
\* read_nurses_data_from_api returns
load_ccp_nurses ==
  /\ runs < MaxLoads
  /\ runs' = runs + 1
  /\ \E ver \in {srvVer, srvVer + 1} :
       /\ ver <= MaxVer
       /\ srvVer' = ver
       /\ \E nurses \in NurseLists(ver) \cup {<< >>} :
            LET data_frames ==
                  IF nurses = << >> THEN << >>
                  ELSE <<[name |-> "nurses", rows |-> nurses]>>
                call == WriteCall(runs', "nurses")
            IN \E n \in 0..Len(data_frames) :
                 /\ wh' = ccp_write_data_to_bigquery(
                            wh, data_frames, utc_now(call), call, n)
                 /\ run' = Loaded("ccp", "nurses", data_frames,
                                  ccp_load_order(data_frames), n,
                                  << >>, << >>, nurses)
  /\ UNCHANGED today

NextLoad ==
  \/ load_api_export
  \/ load_ccp_sessions
  \/ load_ccp_nurses

SpecLoad == Init /\ [][NextLoad]_vars

(* ======================= properties of the runs ======================== *)
TableRows(w, t) == SeqRange(w.rows[t])

ConfigMessages ==
  {"Start date cannot be later than end date.",
   "End date cannot be later than today."}

\* the run has resolved its date range
DatesResolved == run.pc \notin {"idle", "get_dates", "loaded"}

\* C1: a bigquery run that ends without error has appended the rows of every
\* session kind it fetched records of to that kind's fact table.
C1_FetchedSessionsLoaded ==
  (run.pc = "done" /\ run.dest = "bigquery") =>
    /\ run.patient_trainings # << >> =>
         /\ "patient_training_sessions" \in SeqRange(run.written)
         /\ \A i \in 1..Len(run.patient_trainings) :
              \E r \in TableRows(wh, "patient_training_sessions") :
                r.md5 = dict_hash(run.patient_trainings[i])
    /\ run.nurse_trainings # << >> =>
         /\ "nurse_training_sessions" \in SeqRange(run.written)
         /\ \A i \in 1..Len(run.nurse_trainings) :
              \E r \in TableRows(wh, "nurse_training_sessions") :
                r.md5 = dict_hash(run.nurse_trainings[i])

\* the extraction timestamp of the write call the run (or the load) made last
LastExtractedAt == utc_now(WriteCall(runs, run.entity))

\* C2: the nurses table holds one row per username, and after a personnel
\* load the row of every fetched username is the one fetched by that load.
C2_OneRowPerIdentifier ==
  /\ \A i, j \in 1..Len(wh.rows["nurses"]) :
       i # j => wh.rows["nurses"][i].username # wh.rows["nurses"][j].username
  /\ "nurses" \in SeqRange(run.written) =>
       \A k \in 1..Len(run.nurses) :
         \E r \in TableRows(wh, "nurses") :
           /\ r.username = run.nurses[k].username
           /\ r.version = run.nurses[k].version
           /\ r.extracted_at = LastExtractedAt

\* a load of two usernames onto a table of one row, whose username it
\* re-fetched with new contents, leaves two rows
C2_Witness ==
  /\ "nurses" \in SeqRange(run.written)
  /\ Len(run.wh0.rows["nurses"]) = 1
  /\ Len(run.nurses) = 2
  /\ \E k \in 1..2 :
       /\ run.nurses[k].username = run.wh0.rows["nurses"][1].username
       /\ run.nurses[k].version # run.wh0.rows["nurses"][1].version
  /\ Len(wh.rows["nurses"]) = 2

C4_FactTablesAppendOnly ==
  [][\A t \in FactTables :
       /\ wh.exists[t] => wh'.exists[t]
       /\ \A r \in TableRows(wh, t) : r \in TableRows(wh', t)]_vars

\* a fact table holds the rows of two loads, the second of which failed later
C4_Witness ==
  /\ run.pc = "failed"
  /\ run.written # << >>
  /\ \E r1, r2 \in TableRows(wh, "nurse_training_sessions") :
       r1.extracted_at # r2.extracted_at

\* C5: no two rows of a fact table share a content fingerprint.
C5_NoDuplicateFingerprint ==
  \A t \in FactTables :
    \A i, j \in 1..Len(wh.rows[t]) :
      i # j => wh.rows[t][i].md5 # wh.rows[t][j].md5

\* C6: for the bigquery destination the end date is yesterday; without a
\* session table, or with one that has no row, the start date is 2023-06-01
\* and the query raised nothing; with a maximum session date D it is D - 29.
C6_WatermarkResolution ==
  (DatesResolved /\ run.dest = "bigquery") =>
    LET rows == run.wh0.rows["patient_training_sessions"]
        created == run.wh0.exists["patient_training_sessions"]
    IN /\ run.dates.end = today - 1
       /\ run.dates.error = ""
       /\ (~created \/ rows = << >>) => run.dates.start = 0
       /\ \A i \in 1..Len(rows) :
            (\A j \in 1..Len(rows) :
               rows[j].date_of_session <= rows[i].date_of_session)
            => run.dates.start = rows[i].date_of_session - 29

\* a run resumes from a session table whose maximum date is day 1
C6_Witness ==
  /\ run.pc = "login"
  /\ run.dest = "bigquery"
  /\ \E r \in TableRows(run.wh0, "patient_training_sessions") :
       r.date_of_session = 1
  /\ run.dates.start = -28

\* C7: a resolved range with start > end or end > today makes the run fail
\* with the configuration error, and no request was sent to the remote API.
C7_InvalidRangeRejected ==
  (DatesResolved
     /\ (run.dates.start > run.dates.end \/ run.dates.end > today)) =>
    /\ run.pc \in {"except", "failed"}
    /\ run.error \in ConfigMessages
    /\ ~run.api_called
    /\ run.key = None

\* a run was rejected for an end date after today
C7_Witness ==
  /\ run.pc = "failed"
  /\ run.dates.start <= run.dates.end
  /\ run.dates.end > today
  /\ run.error = "End date cannot be later than today."

\* C8 as stated: a range that reaches a fetch has start <= end <= yesterday.
C8_EndNotAfterYesterday ==
  run.pc \in {"fetch_patient", "fetch_nurse"} =>
    /\ run.dates.start <= run.dates.end
    /\ run.dates.end <= today - 1

\* C8 amended: a range that reaches a fetch has start <= end <= today (the
\* end is yesterday for the bigquery destination, whatever the overrides);
\* any other range is rejected before a request is sent.
C8_RangeValidAtFetch ==
  /\ run.pc \in {"fetch_patient", "fetch_nurse"} =>
       /\ run.dates.start <= run.dates.end
       /\ run.dates.end <= today
       /\ run.dest = "bigquery" => run.dates.end = today - 1
  /\ run.api_called =>
       (run.dates.start <= run.dates.end /\ run.dates.end <= today)

\* a fetch runs over a range that ends today
C8_Witness ==
  /\ run.pc = "fetch_patient"
  /\ run.dest = "local"
  /\ run.dates.end = today

\* C16: when the personnel fetch of a bigquery run begins, the sessions the
\* run fetched are rows of the fact tables.
C16_SessionsWrittenBeforePersonnel ==
  (run.pc = "fetch_details" /\ run.dest = "bigquery") =>
    /\ \A i \in 1..Len(run.patient_trainings) :
         \E r \in TableRows(wh, "patient_training_sessions") :
           r.md5 = dict_hash(run.patient_trainings[i])
    /\ \A i \in 1..Len(run.nurse_trainings) :
         \E r \in TableRows(wh, "nurse_training_sessions") :
           r.md5 = dict_hash(run.nurse_trainings[i])

\* the phone numbers referenced by the rows of the two fact tables
WarehousePhones(w) ==
  UNION {SeqRange(Split(r.session_conducted_by)) :
           r \in TableRows(w, "patient_training_sessions")}
    \cup UNION {SeqRange(nurse_training_phones(
                           [trainerdata1 |-> r.trainerdata1[2],
                            traineesdata1 |-> r.traineesdata1[2]])) :
                  r \in TableRows(w, "nurse_training_sessions")}

\* the run has fetched personnel
PersonnelFetched ==
  IF run.prog = "ccp" THEN run.entity = "nurses" ELSE run.data # << >>

\* C17: the phone numbers a bigquery run fetched personnel for are those
\* referenced by the rows of the two fact tables, whichever run loaded them.
C17_PhonesAreWarehouseUnion ==
  (run.pc = "done" /\ run.dest = "bigquery" /\ PersonnelFetched) =>
    SeqRange(run.nurse_phones) = WarehousePhones(wh)

\* C19: the exception that leaves main of a failed run is the one that made
\* it fail, and the Slack message was attempted exactly in the environment
\* 'prod'.
C19_OriginalErrorRaised ==
  run.pc = "failed" =>
    /\ run.raised = run.error
    /\ run.notified <=> run.env = "prod"

\* the rows of table t the last write call loaded: the whole table when it
\* was replaced, the rows after the old ones when it was appended to
WrittenRows(t) ==
  LET rows == wh.rows[t]
      first == IF write_dispositions[t] = "WRITE_TRUNCATE" THEN 1
               ELSE Len(run.wh0.rows[t]) + 1
  IN SubSeq(rows, first, Len(rows))

\* no two rows of the warehouse have the same _extracted_uuid
UuidsDiffer ==
  \A t1, t2 \in TableNames :
    \A i \in 1..Len(wh.rows[t1]), j \in 1..Len(wh.rows[t2]) :
      (t1 # t2 \/ i # j) =>
        wh.rows[t1][i].extracted_uuid # wh.rows[t2][j].extracted_uuid

BusinessCount(w, username, version) ==
  Cardinality({i \in 1..Len(w.rows["nurses"]) :
                 /\ w.rows["nurses"][i].username = username
                 /\ w.rows["nurses"][i].version = version})

SameBusinessRows(w1, w2) ==
  \A username \in SeqRange(SortedPhones), version \in 1..MaxVer :
    BusinessCount(w1, username, version) = BusinessCount(w2, username, version)

\* the load that has just ended and the next one are personnel loads of the
\* same program with the same fetched personnel, and the next one writes it
PersonnelReloaded ==
  /\ run.pc = "loaded" /\ run'.pc = "loaded"
  /\ run'.prog = run.prog /\ run'.entity = run.entity
  /\ run.nurses # << >> /\ run'.nurses = run.nurses
  /\ "nurses" \in SeqRange(run'.written)

\* C23: the personnel load is idempotent: a load that fails before its
\* personnel write leaves the nurses table as it was, and a second load of the
\* same personnel after one that wrote it leaves the same usernames with the
\* same business column values, one row each as before.
C23_PersonnelLoadIdempotent ==
  [][/\ (run'.pc = "loaded" /\ "nurses" \notin SeqRange(run'.written))
          => wh'.rows["nurses"] = wh.rows["nurses"]
     /\ (PersonnelReloaded /\ "nurses" \in SeqRange(run.written))
          => SameBusinessRows(wh', wh)]_vars

\* the same two usernames loaded twice, by either program, onto a table that
\* held another version of one of them
C23_Witness ==
  /\ runs = 2 /\ run.pc = "loaded"
  /\ "nurses" \in SeqRange(run.written)
  /\ Len(run.nurses) = 2
  /\ SameBusinessRows(wh, run.wh0)
  /\ Len(run.wh0.rows["nurses"]) = 2
  /\ \A k \in 1..2 : run.nurses[k] \in
        {[username |-> r.username, version |-> r.version] :
           r \in TableRows(run.wh0, "nurses")}

\* the entity kinds of the read the run made last, and their raw lists
ReadKinds ==
  IF run.prog = "api_export" THEN TableNames
  ELSE IF run.entity = "sessions" THEN FactTables ELSE {"nurses"}

RawList(kind) ==
  IF kind = "nurses" THEN run.nurses
  ELSE IF kind = "patient_training_sessions" THEN run.patient_trainings
  ELSE run.nurse_trainings

\* C22: no run fails because a raw list is empty, and a read returns a table
\* for exactly the entity kinds whose raw list is not empty.
C22_EmptyListIsNoTable ==
  /\ run.error # "NoDataError"
  /\ run.pc \in {"write", "check", "done"} =>
       \A kind \in ReadKinds :
         RawList(kind) # << >> <=> kind \in Names(run.data)

(* ====================== properties of the client ======================= *)
ExpiryTexts == {"Invalid or token expired", "Expired token"}

IsExpiry(response) ==
  response.status = 200 /\ response.result = "failed"
    /\ response.error \in ExpiryTexts

\* C9: a call of a get_* method whose first answer is a recognized expiry
\* error does not return on it; when the re-issued request succeeds the call
\* returns that answer's data, having sent the same request twice, the second
\* time with the token of the new login, and having logged in exactly once.
C9_ExpiryRecovery ==
  LET f == run.fetch
  IN (f.pc # "none" /\ Len(f.responses) >= 1 /\ IsExpiry(f.responses[1])) =>
       /\ Len(f.responses) = 1 => f.pc \in {"login", "request", "raised"}
       /\ (Len(f.responses) = 2 /\ f.responses[2].result = "success") =>
            /\ f.pc = "returned"
            /\ f.result = f.responses[2].data
            /\ Len(f.sent) = 2
            /\ f.sent[2].json = f.sent[1].json
            /\ f.sent[2].headers.AuthKey = run.key
            /\ f.logins = 1

\* get_nurse_details returned a record after the answer 'Expired token'
C9_Witness ==
  LET f == run.fetch
  IN /\ f.pc = "returned"
     /\ f.method = "get_nurse_details"
     /\ Len(f.responses) = 2
     /\ f.responses[1].error = "Expired token"
     /\ f.result # << >>
     /\ f.logins = 1

\* C10: every call of a get_* method ends, by returning or by raising,
\* whatever the remote system answers.
C10_FetchTerminates ==
  (run.fetch.pc = "request") ~> (run.fetch.pc \in {"returned", "raised"})

\* a call ended although every request was answered with an expiry error and
\* every login succeeded
C10_Witness ==
  LET f == run.fetch
  IN /\ f.pc = "raised"
     /\ f.error = "RecursionError"
     /\ Len(f.responses) = RecursionLimit
     /\ \A i \in 1..Len(f.responses) : IsExpiry(f.responses[i])
     /\ f.logins = RecursionLimit

\* C12: a login the remote system does not answer with 'success' raises to
\* its caller, from inside a fetch as well: one login request was sent, no
\* further request follows in the call, and self.key is what it was.
C12_LoginFailureIsFatal ==
  [][/\ (run.pc = "idle" /\ run'.error = "Login unsuccessful") =>
          /\ run'.pc = "failed"
          /\ run'.key = run.key
          /\ run'.logins = run.logins + 1
     /\ (run.fetch.pc = "login" /\ run'.fetch.error = "Login unsuccessful") =>
          /\ run'.fetch.pc = "raised"
          /\ run'.fetch.result = << >>
          /\ run'.key = run.key
          /\ run'.logins = run.logins + 1
          /\ run'.fetch.sent = run.fetch.sent
     /\ (run.fetch.pc = "raised" /\ run'.fetch.pc # "request") =>
          /\ run'.logins = run.logins
          /\ run'.key = run.key]_vars

\* the second login of a call failed: the call raised and the client keeps
\* the token of the first
C12_Witness ==
  /\ run.fetch.pc = "raised"
  /\ run.fetch.error = "Login unsuccessful"
  /\ run.fetch.logins = 2
  /\ run.logins = 3
  /\ run.key = Some(2)

(* ==================== properties of a network call ===================== *)
\* C13: whichever program and call, a request answered with 500, 502, 503 or
\* 504 is sent again until 10 retries are used up and only then raises; an
\* answer with another error status or a malformed body raises at once.
C13_TransientFaultRetried ==
  LET f == run.fetch
  IN f.attempts > 0 =>
       /\ (f.pc = "raised" /\ f.status \in StatusForcelist) =>
            f.attempts = RetryTotal + 1
       /\ (f.pc = "send") =>
            (f.status \in StatusForcelist /\ f.attempts <= RetryTotal)
       /\ (f.status \notin StatusForcelist) => f.pc \in {"raised", "returned"}

(* ================== properties of a concurrent batch =================== *)
\* the worker of unit i takes a step in which it receives a failure that is
\* not a token expiry
NonExpiryFailure(i) ==
  /\ run.batch.pc = "running"
  /\ i <= Len(run.batch.w)
  /\ run.batch.w[i].pc = "request"
  /\ run'.batch.w[i].last \notin ({"", "success", "status"} \cup ExpiryTexts)

\* the records the remote system holds for the units answered with success
SuccessfulData(b, ver) ==
  Flatten([i \in 1..Len(b.w) |->
             IF b.w[i].last = "success"
             THEN ServerData(b.method, b.units[i], ver) ELSE << >>])

\* C11: a fetch answered with result 'failed' and an error that is no expiry
\* text returns an empty list at once, without raising and without a login;
\* the batch then returns the records of the units answered with success.
C11_NonExpiryFailureIsEmpty ==
  [][/\ \A i \in 1..3 :
          NonExpiryFailure(i) =>
            /\ run'.batch.w[i].pc = "returned"
            /\ run'.batch.w[i].result = << >>
            /\ run'.batch.w[i].error = ""
            /\ run'.logins = run.logins
            /\ run'.key = run.key
            /\ run'.batch.w[i].key = run.batch.w[i].key
     /\ run'.batch.pc = "returned" =>
          run'.batch.result = SuccessfulData(run'.batch, srvVer)]_vars

\* a batch of three phones returned the record of the second although the
\* fetch of the first was answered 'No data found'
C11_Witness ==
  /\ run.batch.pc = "returned"
  /\ run.batch.method = "get_nurse_details"
  /\ run.batch.units = <<"p1", "p2", "p3">>
  /\ run.batch.w[1].last = "No data found"
  /\ run.batch.w[2].last = "success"
  /\ run.batch.result = NurseDetails("p2", srvVer)

\* the lists the workers of a batch returned, in the order of the units
UnitResults(b) == [i \in 1..Len(b.w) |-> b.w[i].result]

RECURSIVE TotalLen(_)
TotalLen(nested) ==
  IF nested = << >> THEN 0 ELSE Len(Head(nested)) + TotalLen(Tail(nested))

\* how often x occurs in the lists of nested
RECURSIVE TotalCount(_, _)
TotalCount(nested, x) ==
  IF nested = << >> THEN 0
  ELSE Cardinality({k \in 1..Len(Head(nested)) : Head(nested)[k] = x})
         + TotalCount(Tail(nested), x)

\* C14: a batch none of whose fetches raised returns, whatever the order in
\* which its workers ended, a list holding the records the per-unit fetches
\* returned, each as often as they returned it: its length is the sum of
\* their lengths.
C14_FlattenedExactly ==
  LET b == run.batch
  IN (b.pc \in {"returned", "raised"}
        /\ \A i \in 1..Len(b.w) : b.w[i].pc = "returned") =>
       /\ b.pc = "returned"
       /\ Len(b.result) = TotalLen(UnitResults(b))
       /\ \A x \in SeqRange(b.result) \cup SeqRange(Flatten(UnitResults(b))) :
            TotalCount(<<b.result>>, x) = TotalCount(UnitResults(b), x)

\* a batch over three dates, whose later units ended before earlier ones,
\* returned the two records of its units
C14_Witness ==
  /\ run.batch.pc = "returned"
  /\ Len(run.batch.units) = 3
  /\ run.batch.reordered
  /\ Len(run.batch.w[1].result) = 1
  /\ Len(run.batch.w[2].result) = 1
  /\ Len(run.batch.result) = 2

\* C15: when the fetch of a unit raised, the batch raises an error of its
\* fetches and returns no list: the records the other units returned are
\* dropped, and the unit that raised is not counted as a unit without records.
C15_RaiseAbortsBatch ==
  LET b == run.batch
  IN (b.pc \in {"returned", "raised"}
        /\ \E i \in 1..Len(b.w) : b.w[i].pc = "raised") =>
       /\ b.pc = "raised"
       /\ \E i \in 1..Len(b.w) :
            b.w[i].pc = "raised" /\ b.error = b.w[i].error
       /\ b.result = << >>

\* a batch raised the HTTPError of its second unit although its first unit
\* had returned a record
C15_Witness ==
  /\ run.batch.pc = "raised"
  /\ run.batch.error = "HTTPError"
  /\ Len(run.batch.w) >= 2
  /\ run.batch.w[1].pc = "returned"
  /\ run.batch.w[1].result # << >>
  /\ run.batch.w[2].pc = "raised"

\* C25: the list made of dt_iterate over a validated range holds
\* end - start + 1 dates in ascending order, every date from start to end once
\* and no other, and each of the two session batches has one task for every
\* element of that list.
C25_OneFetchPerDate ==
  /\ run.gen.pc = "exhausted" =>
       LET dates == run.gen.yielded
       IN /\ Len(dates) = run.dates.end - run.dates.start + 1
          /\ \A i, j \in 1..Len(dates) : i < j => dates[i] < dates[j]
          /\ \A d \in DefaultStartDate..(MaxDay + 1) :
               Cardinality({i \in 1..Len(dates) : dates[i] = d})
                 = IF run.dates.start <= d /\ d <= run.dates.end THEN 1 ELSE 0
          /\ dates = dt_iterate(run.dates.start, run.dates.end)
  /\ run.batch.method \in {"get_patient_training", "get_nurse_training"} =>
       /\ run.gen.pc = "exhausted"
       /\ run.batch.units = run.gen.yielded
       /\ Len(run.batch.w) = Len(run.batch.units)

\* the nurse-training batch of a range of three days that starts after
\* 2023-06-01
C25_Witness ==
  /\ run.gen.pc = "exhausted"
  /\ run.batch.method = "get_nurse_training"
  /\ run.dates.start > DefaultStartDate
  /\ run.dates.end = run.dates.start + 2
  /\ Len(run.batch.w) = 3

\* the range the next bigquery run resolves, started on the same day
NextDates == get_dates_from_bigquery(wh, today)

\* dates of the session rows a run fetched for a table it did not load
UnpersistedDates ==
  (IF "patient_training_sessions" \in Names(run.data) \ SeqRange(run.written)
   THEN {r.date_of_session :
           r \in SeqRange(Frame(run.data, "patient_training_sessions"))}
   ELSE {})
  \cup
  (IF "nurse_training_sessions" \in Names(run.data) \ SeqRange(run.written)
   THEN {r.sessiondateandtime :
           r \in SeqRange(Frame(run.data, "nurse_training_sessions"))}
   ELSE {})

\* C26: while every bigquery run so far has completed without error, every
\* date from 2023-06-01 to yesterday lies in the range fetched by one of
\* them, and a run's start is not later than the day after the maximum
\* date_of_session it found.
C26_NoDateSkipped ==
  (run.pc = "cycled" /\ run.history.clean) =>
    /\ \A d \in DefaultStartDate..(today - 1) : d \in run.history.covered
    /\ read_bigquery_max_date(run.wh0).item # None =>
         run.dates.start <= read_bigquery_max_date(run.wh0).item[1] + 1

\* a second run that starts after 2023-06-01, on a later day than the first
C26_Witness ==
  /\ run.pc = "cycled" /\ run.history.clean
  /\ runs = 2
  /\ run.dates.start > DefaultStartDate
  /\ run.dates.end = DefaultStartDate + Overlap + 2
  /\ run.written # << >>

C24_JoinBeforeFlatten ==
  /\ (run.batch.pc \in {"returned", "raised"} \/ run.batch.result # << >>)
       => \A i \in 1..Len(run.batch.w) :
            run.batch.w[i].pc \in {"returned", "raised"}
  /\ run.batch.pc = "running" => run.batch.result = << >> /\ run.batch.error = ""

\* three tasks that ended out of the order of their units, one of them after
\* a login of its own, and the records flattened after the last one
C24_Witness ==
  /\ run.batch.pc = "returned"
  /\ Len(run.batch.w) = 3
  /\ run.batch.reordered
  /\ run.batch.result # << >>
  /\ \E i \in 1..3 : run.batch.w[i].depth > 1

\* a worker of the batch logged in again after a token expiry, and went on
LoggedInAgain(b) == \E i \in 1..Len(b.w) : b.w[i].depth >= 2

\* C18: after a batch that returned and some of whose workers logged in
\* again on a token expiry, the token of the client is one of those the
\* workers were issued, no longer the one of the login made before the batch.
C18_ClientKeepsNewToken ==
  (run.batch.pc = "returned" /\ LoggedInAgain(run.batch)) =>
    run.key \in {Some(n) : n \in 2..run.logins}

(* ===================== properties of the fingerprint =================== *)
\* C28: a worker about to send an entity request reads a token that a
\* successful login has issued, never the None of a new Report, whatever the
\* pool and however the logins of the workers interleave.
C28_RequestCarriesToken ==
  /\ run.pc = "client" => run.key # None
  /\ run.batch.pc = "running" =>
       \A i \in 1..Len(run.batch.w) :
         run.batch.w[i].pc = "request" =>
           /\ WorkerKey(run, i) # None
           /\ WorkerKey(run, i)[1] \in 1..run.logins

\* two threads have logged in again after an expiry, one has stored its
\* token and is about to send its request again while the other has not
\* stored its token yet
C28_Witness ==
  /\ run.batch.pc = "running"
  /\ run.batch.pool = "threads"
  /\ run.batch.expiries > 0
  /\ \E i, j \in 1..Len(run.batch.w) :
       /\ run.batch.w[i].pc = "request" /\ run.batch.w[i].depth > 1
       /\ run.batch.w[j].pc = "assign"
       /\ run.key # run.batch.w[j].token

====
